---- MODULE Spec2Model ----
(***************************************************************************)
(* AuthorizedStorageAccount (addon_service/authorized_storage_account/     *)
(* models.py): the OAuth2 token lifecycle, credential assignment and the   *)
(* validation run on save.                                                 *)
(*                                                                         *)
(* One in-memory model instance per account row.  Token metadata and       *)
(* credential records are separate rows; a row written inside a            *)
(* @transaction.atomic method is uncommitted until the method returns and  *)
(* is rolled back when it raises, while the in-memory object keeps what    *)
(* was assigned to it.                                                     *)
(***************************************************************************)
EXTENDS Integers, FiniteSets, Sequences, TLC

\* ---- bounds ----
NumAccounts == 2
MaxMeta == 2
NumBlobs == 2

Acct == 1 .. NumAccounts
MetaIds == 1 .. MaxMeta
CredIds == 1 .. NumAccounts
Blobs == 1 .. NumBlobs
\* outputs of token_urlsafe(16): as many values as there can be records, so
\* that a call that may still create a record finds an unused one
Tokens == 1 .. MaxMeta

NULL == 0

\* CredentialsFormats: OAUTH2, and any other format
OAUTH2 == "OAUTH2"
NON_OAUTH2 == "NON_OAUTH2"

\* scope lists: Python None, the empty list, two valid non-empty lists, and
\* a list with a blank item, which the record's validation rejects
ScNone == "None"
ScEmpty == "[]"
ScRead == "[read]"
ScWrite == "[write]"
ScBlank == "['']"
ReqScopes == {ScNone, ScEmpty, ScWrite, ScBlank}

\* external_service.supported_scopes
supported_scopes == ScRead

VARIABLES
    fmt,        \* fmt[a]: external_service.credentials_format of account a
    inst,       \* inst[a]: the in-memory AuthorizedStorageAccount instance
    dbAcct,     \* dbAcct[a]: the committed account row
    metaObj,    \* metaObj[m]: OAuth2TokenMetadata record m
    credMem,    \* credMem[c]: credentials_blob of the in-memory ExternalCredentials c
    credDb,     \* credDb[c]: committed credentials_blob of row c (NULL: no row)
    pc,         \* pc[a]: position of the running initiate_oauth2_flow call
    req,        \* req[a]: the authorized_scopes argument of the running call
    tok,        \* tok[a]: the token generated by the last loop iteration of the running call
    err,        \* err[a]: keys of e.error_dict of the last create attempt of the running call
    last        \* the operation that completed last, and how it ended

vars == <<fmt, inst, dbAcct, metaObj, credMem, credDb, pc, req, tok, err, last>>

\* ---- values ----
NoneData == [tag |-> "None", blob |-> NULL]

\* ExternalCredentials.as_data(): the decoded view of a stored blob
as_data(b) == [tag |-> "data", blob |-> b]

\* Python truthiness of a scope list and of the credentials value
ScopesTruthy(s) == s \notin {ScNone, ScEmpty}
DataTruthy(d) == d.tag # "None"

FreshInstance == [cred |-> NULL, meta |-> NULL, cached |-> FALSE, cache |-> NoneData]
NoRow == [exists |-> FALSE, cred |-> NULL, meta |-> NULL]
NoMeta == [status |-> "none", state_token |-> NULL, refresh_token |-> NULL, scopes |-> ScNone]

\* operation o on account a ended with outcome out ("ok", "None", "url", or
\* the error raised); blob is the argument of set_credentials
Called(a, o, out, b) == [acct |-> a, op |-> o, outcome |-> out, blob |-> b]

Init ==
    /\ fmt \in [Acct -> {OAUTH2, NON_OAUTH2}]
    /\ inst = [a \in Acct |-> FreshInstance]
    /\ dbAcct = [a \in Acct |-> NoRow]
    /\ metaObj = [m \in MetaIds |-> NoMeta]
    /\ credMem = [c \in CredIds |-> NULL]
    /\ credDb = [c \in CredIds |-> NULL]
    /\ pc = [a \in Acct |-> "idle"]
    /\ req = [a \in Acct |-> ScNone]
    /\ tok = [a \in Acct |-> NULL]
    /\ err = [a \in Acct |-> {}]
    /\ last = Called(NULL, "none", "none", NULL)

\* ---- AuthorizedStorageAccount.credentials (cached_property) ----
\* the value a read of the property returns
credentials(in, cm) ==
    IF in.cached THEN in.cache
    ELSE IF in.cred # NULL THEN as_data(cm[in.cred])
    ELSE NoneData

\* the instance after a read: the value is stored in vars(self)
AfterRead(in, cm) == [in EXCEPT !.cached = TRUE, !.cache = credentials(in, cm)]

\* ---- AuthorizedStorageAccount.clean ----
CleanChecks(a, in) == fmt[a] = OAUTH2 /\ in.meta # NULL

\* clean without the test of the credentials format
clean_AnyFormat(a, in, mo, cm) ==
    IF in.meta = NULL THEN "ok"
    ELSE IF DataTruthy(credentials(in, cm)) = (mo[in.meta].state_token # NULL)
        THEN "ExactlyOneError"
    ELSE IF DataTruthy(credentials(in, cm)) /\ mo[in.meta].refresh_token = NULL
        THEN "RefreshTokenError"
    ELSE "ok"

clean(a, in, mo, cm) ==
    IF ~CleanChecks(a, in) THEN "ok"
    ELSE IF DataTruthy(credentials(in, cm)) = (mo[in.meta].state_token # NULL)
        THEN "ExactlyOneError"
    ELSE IF DataTruthy(credentials(in, cm)) /\ mo[in.meta].refresh_token = NULL
        THEN "RefreshTokenError"
    ELSE "ok"

\* the instance after clean(): clean reads self.credentials when it checks
AfterClean(a, in, cm) == IF CleanChecks(a, in) THEN AfterRead(in, cm) ELSE in

\* ---- save(): clean(), then the row is written; the foreign keys must
\* reference rows that exist in the transaction's view ----
MetaVisible(m, mo) == IF m = NULL THEN TRUE ELSE mo[m].status \in {"committed", "uncommitted"}
CredVisible(c, cd) == IF c = NULL THEN TRUE ELSE cd[c] # NULL

save(a, in, mo, cm, cd) ==
    IF clean(a, in, mo, cm) # "ok" THEN clean(a, in, mo, cm)
    ELSE IF ~(MetaVisible(in.meta, mo) /\ CredVisible(in.cred, cd)) THEN "IntegrityError"
    ELSE "ok"

Row(in) == [exists |-> TRUE, cred |-> in.cred, meta |-> in.meta]

\* ---- account creation: objects.create(oauth2_token_metadata=m) on a new
\* instance, which saves it ----
CreateAccount(a, m) ==
    /\ pc[a] = "idle"
    /\ ~dbAcct[a].exists
    /\ inst[a] = FreshInstance
    /\ IF m = NULL THEN TRUE ELSE metaObj[m].status = "committed"
    /\ LET in1 == [inst[a] EXCEPT !.meta = m]
           out == save(a, in1, metaObj, credMem, credDb)
       IN  /\ last' = Called(a, "create", out, NULL)
           /\ IF out = "ok"
              THEN /\ inst' = [inst EXCEPT ![a] = AfterClean(a, in1, credMem)]
                   /\ dbAcct' = [dbAcct EXCEPT ![a] = Row(in1)]
              ELSE UNCHANGED <<inst, dbAcct>>
    /\ UNCHANGED <<fmt, metaObj, credMem, credDb, pc, req, tok, err>>

\* ---- a direct save() of the instance as it is ----
DirectSave(a) ==
    /\ pc[a] = "idle"
    /\ LET out == save(a, inst[a], metaObj, credMem, credDb)
       IN  /\ last' = Called(a, "save", out, NULL)
           /\ inst' = [inst EXCEPT ![a] = AfterClean(a, inst[a], credMem)]
           /\ IF out = "ok"
              THEN dbAcct' = [dbAcct EXCEPT ![a] = Row(inst[a])]
              ELSE UNCHANGED dbAcct
    /\ UNCHANGED <<fmt, metaObj, credMem, credDb, pc, req, tok, err>>

\* ---- a read of the credentials property ----
ReadCredentials(a) ==
    /\ pc[a] = "idle"
    /\ inst' = [inst EXCEPT ![a] = AfterRead(inst[a], credMem)]
    /\ UNCHANGED <<fmt, dbAcct, metaObj, credMem, credDb, pc, req, tok, err, last>>

\* ---- AuthorizedStorageAccount.auth_url ----
\* "None", "url" (build_auth_url of the pending state token and the scopes),
\* or the AttributeError of None.state_token
auth_url(a, in, mo) ==
    IF fmt[a] # OAUTH2 THEN "None"
    ELSE IF in.meta = NULL THEN "AttributeError"
    ELSE IF mo[in.meta].state_token = NULL THEN "None"
    ELSE "url"

ReadAuthUrl(a) ==
    /\ pc[a] = "idle"
    /\ last' = Called(a, "auth_url", auth_url(a, inst[a], metaObj), NULL)
    /\ UNCHANGED <<fmt, inst, dbAcct, metaObj, credMem, credDb, pc, req, tok, err>>

\* the requested scopes dropped: always the supported ones
EffectiveScopes_SupportedOnly(r, sup) == sup

\* ---- AuthorizedStorageAccount.initiate_oauth2_flow ----
\* authorized_scopes or self.external_service.supported_scopes
EffectiveScopes(r, sup) == IF ScopesTruthy(r) THEN r ELSE sup

\* validation run by OAuth2TokenMetadata.objects.create: state_token is
\* UNIQUE among the committed records, the items of authorized_scopes may
\* not be blank
StateTokenTaken(t, mo) ==
    \E m \in MetaIds : mo[m].status = "committed" /\ mo[m].state_token = t

error_dict(t, scopes, mo) ==
    (IF StateTokenTaken(t, mo) THEN {"state_token"} ELSE {})
        \cup (IF scopes \in {ScNone, ScBlank} THEN {"authorized_scopes"} ELSE {})

\* no unique index on state_token
IndexHolds_NoIndex(t, mo, st) == FALSE

\* the unique index on state_token, which also sees rows that other
\* transactions have inserted and not yet committed
IndexHolds(t, mo, st) == \E m \in MetaIds : mo[m].status = st /\ mo[m].state_token = t

Allocated == {m \in MetaIds : metaObj[m].status # "none"}
InFlight == {b \in Acct : pc[b] \in {"gen", "insert"}}
FreeMeta == CHOOSE m \in MetaIds \ Allocated : \A n \in MetaIds \ Allocated : m <= n

\* entry: the format check
InitiateBegin(a, r) ==
    /\ pc[a] = "idle"
    /\ Cardinality(Allocated) + Cardinality(InFlight) < MaxMeta
    /\ IF fmt[a] # OAUTH2
       THEN /\ last' = Called(a, "initiate_oauth2_flow", "ValueError", NULL)
            /\ UNCHANGED <<pc, req>>
       ELSE /\ pc' = [pc EXCEPT ![a] = "gen"]
            /\ req' = [req EXCEPT ![a] = r]
            /\ UNCHANGED last
    /\ UNCHANGED <<fmt, inst, dbAcct, metaObj, credMem, credDb, tok, err>>

\* one iteration of the while loop up to the validation inside create():
\* a ValidationError is caught; with "state_token" among its keys the loop
\* continues, and otherwise the except clause ends without raising, so the
\* loop runs again as well
InitiateGenerate(a) ==
    /\ pc[a] = "gen"
    /\ \E t \in Tokens :
         LET e == error_dict(t, EffectiveScopes(req[a], supported_scopes), metaObj)
         IN  /\ tok' = [tok EXCEPT ![a] = t]
             /\ err' = [err EXCEPT ![a] = e]
             /\ IF e = {}
                THEN pc' = [pc EXCEPT ![a] = "insert"]
                ELSE IF "state_token" \in e
                THEN pc' = [pc EXCEPT ![a] = "gen"]
                ELSE pc' = [pc EXCEPT ![a] = "gen"]
    /\ UNCHANGED <<fmt, inst, dbAcct, metaObj, credMem, credDb, req, last>>

\* the end of the call: the locals are gone
Return(a) ==
    /\ pc' = [pc EXCEPT ![a] = "idle"]
    /\ req' = [req EXCEPT ![a] = ScNone]
    /\ tok' = [tok EXCEPT ![a] = NULL]
    /\ err' = [err EXCEPT ![a] = {}]

\* the INSERT of create(): it waits for a transaction holding the same token
\* uncommitted, fails on a committed duplicate (not a ValidationError, so it
\* propagates), and otherwise the record is assigned to the instance
InitiateInsert(a) ==
    /\ pc[a] = "insert"
    /\ ~IndexHolds(tok[a], metaObj, "uncommitted")
    /\ IF IndexHolds(tok[a], metaObj, "committed")
       THEN /\ last' = Called(a, "initiate_oauth2_flow", "IntegrityError", NULL)
            /\ Return(a)
            /\ UNCHANGED <<metaObj, inst>>
       ELSE /\ metaObj' = [metaObj EXCEPT ![FreeMeta] =
                             [status |-> "uncommitted",
                              state_token |-> tok[a],
                              refresh_token |-> NULL,
                              scopes |-> EffectiveScopes(req[a], supported_scopes)]]
            /\ inst' = [inst EXCEPT ![a].meta = FreeMeta]
            /\ pc' = [pc EXCEPT ![a] = "save"]
            /\ UNCHANGED <<req, tok, err, last>>
    /\ UNCHANGED <<fmt, dbAcct, credMem, credDb>>

\* the save without the atomic block: the created record stays when save()
\* raises
InitiateSave_NoRollback(a) ==
    /\ pc[a] = "save"
    /\ LET out == save(a, inst[a], metaObj, credMem, credDb)
           m == inst[a].meta
       IN  /\ last' = Called(a, "initiate_oauth2_flow", out, NULL)
           /\ inst' = [inst EXCEPT ![a] = AfterClean(a, inst[a], credMem)]
           /\ metaObj' = [metaObj EXCEPT ![m].status = "committed"]
           /\ IF out = "ok"
              THEN dbAcct' = [dbAcct EXCEPT ![a] = Row(inst[a])]
              ELSE UNCHANGED dbAcct
    /\ Return(a)
    /\ UNCHANGED <<fmt, credMem, credDb>>

\* else: self.save(); return -- and the end of the atomic block: commit on
\* return, rollback of the created record when save() raises
InitiateSave(a) ==
    /\ pc[a] = "save"
    /\ LET out == save(a, inst[a], metaObj, credMem, credDb)
           m == inst[a].meta
       IN  /\ last' = Called(a, "initiate_oauth2_flow", out, NULL)
           /\ inst' = [inst EXCEPT ![a] = AfterClean(a, inst[a], credMem)]
           /\ IF out = "ok"
              THEN /\ metaObj' = [metaObj EXCEPT ![m].status = "committed"]
                   /\ dbAcct' = [dbAcct EXCEPT ![a] = Row(inst[a])]
              ELSE /\ metaObj' = [metaObj EXCEPT ![m].status = "rolledback"]
                   /\ UNCHANGED dbAcct
    /\ Return(a)
    /\ UNCHANGED <<fmt, credMem, credDb>>

\* ---- AuthorizedStorageAccount.set_credentials ----
FreeCred == CHOOSE c \in CredIds : credMem[c] = NULL /\ \A d \in CredIds : credMem[d] = NULL => c <= d

\* set_credentials without the del of the cached property
set_credentials_KeepCache(a, blob) ==
    /\ pc[a] = "idle"
    /\ LET c == IF inst[a].cred # NULL THEN inst[a].cred ELSE FreeCred
           cm1 == [credMem EXCEPT ![c] = blob]
           cd1 == [credDb EXCEPT ![c] = blob]
           in1 == [inst[a] EXCEPT !.cred = c]
           out == save(a, in1, metaObj, cm1, cd1)
       IN  /\ credMem' = cm1
           /\ inst' = [inst EXCEPT ![a] = AfterClean(a, in1, cm1)]
           /\ last' = Called(a, "set_credentials", out, blob)
           /\ IF out = "ok"
              THEN /\ credDb' = cd1
                   /\ dbAcct' = [dbAcct EXCEPT ![a] = Row(in1)]
              ELSE UNCHANGED <<credDb, dbAcct>>
    /\ UNCHANGED <<fmt, metaObj, pc, req, tok, err>>

set_credentials(a, blob) ==
    /\ pc[a] = "idle"
    /\ LET c == IF inst[a].cred # NULL THEN inst[a].cred ELSE FreeCred
           \* _update(blob) of the linked record, or objects.create(blob)
           cm1 == [credMem EXCEPT ![c] = blob]
           cd1 == [credDb EXCEPT ![c] = blob]
           \* del self.credentials when it is in vars(self)
           in1 == [inst[a] EXCEPT !.cred = c, !.cached = FALSE, !.cache = NoneData]
           out == save(a, in1, metaObj, cm1, cd1)
       IN  /\ credMem' = cm1
           /\ inst' = [inst EXCEPT ![a] = AfterClean(a, in1, cm1)]
           /\ last' = Called(a, "set_credentials", out, blob)
           /\ IF out = "ok"
              THEN /\ credDb' = cd1
                   /\ dbAcct' = [dbAcct EXCEPT ![a] = Row(in1)]
              ELSE UNCHANGED <<credDb, dbAcct>>
    /\ UNCHANGED <<fmt, metaObj, pc, req, tok, err>>

\* ---- the exchange of the state token for real tokens: the record's
\* state_token is cleared and the refresh token the provider returned (if
\* any) is stored ----
Exchange(m, r) ==
    /\ metaObj[m].status = "committed"
    /\ metaObj[m].state_token # NULL
    /\ metaObj' = [metaObj EXCEPT ![m].state_token = NULL, ![m].refresh_token = r]
    /\ last' = Called(NULL, "exchange", "ok", NULL)
    /\ UNCHANGED <<fmt, inst, dbAcct, credMem, credDb, pc, req, tok, err>>

Next ==
    \/ \E a \in Acct, m \in MetaIds \cup {NULL} : CreateAccount(a, m)
    \/ \E a \in Acct : DirectSave(a)
    \/ \E a \in Acct : ReadCredentials(a)
    \/ \E a \in Acct : ReadAuthUrl(a)
    \/ \E a \in Acct, r \in ReqScopes : InitiateBegin(a, r)
    \/ \E a \in Acct : InitiateGenerate(a)
    \/ \E a \in Acct : InitiateInsert(a)
    \/ \E a \in Acct : InitiateSave(a)
    \/ \E a \in Acct, blob \in Blobs : set_credentials(a, blob)
    \/ \E m \in MetaIds, r \in {NULL, 1} : Exchange(m, r)

Spec == Init /\ [][Next]_vars

\* ---- initiate_oauth2_flow alone, with the scheduling of a running call:
\* a call that can take its next step takes it, and the generator does not
\* return a token in use forever ----
LiveNext ==
    \/ \E a \in Acct, r \in ReqScopes : InitiateBegin(a, r)
    \/ \E a \in Acct : InitiateGenerate(a)
    \/ \E a \in Acct : InitiateInsert(a)
    \/ \E a \in Acct : InitiateSave(a)
    \/ \E m \in MetaIds, r \in {NULL, 1} : Exchange(m, r)

LiveSpec ==
    /\ Init
    /\ [][LiveNext]_vars
    /\ \A a \in Acct : WF_vars(InitiateGenerate(a))
    /\ \A a \in Acct : WF_vars(InitiateInsert(a))
    /\ \A a \in Acct : WF_vars(InitiateSave(a))
    /\ \A a \in Acct : SF_vars(InitiateGenerate(a) /\ pc'[a] = "insert")

\* ---- the persisted state ----
DbStateToken(a) ==
    IF dbAcct[a].meta = NULL THEN NULL ELSE metaObj[dbAcct[a].meta].state_token
DbRefreshToken(a) ==
    IF dbAcct[a].meta = NULL THEN NULL ELSE metaObj[dbAcct[a].meta].refresh_token

\* the operation that completed last was a save of account a that succeeded
SavedOk(a) ==
    /\ last.acct = a
    /\ last.outcome = "ok"
    /\ last.op \in {"create", "save", "initiate_oauth2_flow", "set_credentials"}

Failure == {"ValueError", "ExactlyOneError", "RefreshTokenError", "IntegrityError"}

\* what is visible to a reader of the database: the account rows, the
\* committed token metadata records and the committed credential records
Persisted ==
    <<dbAcct,
      [m \in MetaIds |-> IF metaObj[m].status = "committed" THEN metaObj[m] ELSE NoMeta],
      credDb>>

\* ---- claims ----

\* C1: after every successful save of an OAuth2-format account exactly one of
\* {stored credential, state token} is non-null, also when the account has no
\* token metadata linked.
C1_ExactlyOne ==
    \A a \in Acct :
        (fmt[a] = OAUTH2 /\ SavedOk(a))
            => ((dbAcct[a].cred # NULL) # (DbStateToken(a) # NULL))

\* C2: after every successful save of an OAuth2-format account, a stored
\* credential comes with a refresh token on the account's token metadata.
C2_RefreshToken ==
    \A a \in Acct :
        (fmt[a] = OAUTH2 /\ SavedOk(a) /\ dbAcct[a].cred # NULL)
            => DbRefreshToken(a) # NULL

C4_NoStaleCredentials ==
    \A a \in Acct :
        (last.acct = a /\ last.op = "set_credentials" /\ last.outcome = "ok")
            => credentials(inst[a], credMem) = as_data(last.blob)

\* set_credentials returned on an OAuth2 account with token metadata, whose
\* instance had a value cached by the validation of the earlier save
C4_Witness ==
    \E a \in Acct :
        /\ last = Called(a, "set_credentials", "ok", 2)
        /\ fmt[a] = OAUTH2
        /\ dbAcct[a].meta # NULL
        /\ inst[a].cached

\* C5: in the retry loop of initiate_oauth2_flow only a state_token collision
\* leads back to the head of the loop; a ValidationError on another field
\* alone ends the call.
C5_OnlyCollisionRetried ==
    \A a \in Acct : pc[a] = "gen" => err[a] # {"authorized_scopes"}

\* C6: the validation of clean never rejects an account of a non-OAuth2
\* format, whatever credential, state token and refresh token it holds.
C6_NonOAuth2NeverRejected ==
    \A a \in Acct :
        fmt[a] # OAUTH2 =>
            /\ clean(a, inst[a], metaObj, credMem) = "ok"
            /\ ~(last.acct = a /\ last.outcome \in {"ExactlyOneError", "RefreshTokenError"})

\* a non-OAuth2 account saved with a credential and a pending state token and
\* no refresh token
C6_Witness ==
    \E a \in Acct :
        /\ fmt[a] # OAUTH2
        /\ SavedOk(a)
        /\ dbAcct[a].cred # NULL
        /\ DbStateToken(a) # NULL
        /\ DbRefreshToken(a) = NULL

\* C7: a read of auth_url gives None or an authorization URL, never an error.
C7_AuthUrlNoError ==
    last.op = "auth_url" => last.outcome \in {"None", "url"}

\* C8: a successful initiate_oauth2_flow links the account to a record
\* persisted by that call, with the state token set and the requested scopes
\* (the supported ones when none are requested), and no credential; a cleared
\* state token of a record stays cleared, and a persisted account gets a state
\* token only by a successful initiate_oauth2_flow.
C8_PendingAfterInitiate ==
    [][\A a \in Acct :
        /\ (pc[a] = "save" /\ pc'[a] = "idle" /\ last'.outcome = "ok")
            => /\ inst'[a].meta # NULL
               /\ dbAcct'[a] = [exists |-> TRUE, cred |-> NULL, meta |-> inst'[a].meta]
               /\ metaObj[inst'[a].meta].status = "uncommitted"
               /\ metaObj'[inst'[a].meta].status = "committed"
               /\ metaObj'[inst'[a].meta].state_token # NULL
               /\ metaObj'[inst'[a].meta].scopes =
                    (IF req[a] \in {ScNone, ScEmpty} THEN supported_scopes ELSE req[a])
        /\ \A m \in MetaIds :
            (metaObj[m].status # "none" /\ metaObj[m].state_token = NULL)
                => metaObj'[m].state_token = NULL
        /\ (dbAcct[a].exists /\ DbStateToken(a) = NULL /\ DbStateToken(a)' # NULL)
            => (pc[a] = "save" /\ pc'[a] = "idle" /\ last'.outcome = "ok")
      ]_vars

\* the flow was initiated with requested scopes and the account is pending
C8_Witness ==
    \E a \in Acct :
        /\ last = Called(a, "initiate_oauth2_flow", "ok", NULL)
        /\ dbAcct[a].meta # NULL
        /\ DbStateToken(a) # NULL
        /\ metaObj[dbAcct[a].meta].scopes = ScWrite
        /\ dbAcct[a].cred = NULL

\* C9: a running initiate_oauth2_flow ends.
C9_InitiateTerminates ==
    \A a \in Acct : (pc[a] = "gen") ~> (pc[a] = "idle")

\* C10: a failed initiate_oauth2_flow or set_credentials leaves the persisted
\* state as it was, and the record a failed initiate_oauth2_flow created is
\* not persisted.
C10_FailureRollsBack ==
    [][\A a \in Acct :
        (/\ last'.acct = a
         /\ last'.op \in {"initiate_oauth2_flow", "set_credentials"}
         /\ last'.outcome \in Failure
         /\ ((pc[a] # "idle" /\ pc'[a] = "idle") \/ last' # last \/ inst'[a] # inst[a] \/ credMem' # credMem))
            => /\ Persisted' = Persisted
               /\ pc[a] = "save" => metaObj'[inst[a].meta].status = "rolledback"
      ]_vars

\* an initiate_oauth2_flow on an account that holds a credential failed in
\* its save, after the record was created
C10_Witness ==
    \E a \in Acct :
        /\ last = Called(a, "initiate_oauth2_flow", "ExactlyOneError", NULL)
        /\ inst[a].meta # NULL
        /\ metaObj[inst[a].meta].status = "rolledback"
        /\ dbAcct[a].cred # NULL

====
